---------------------------- MODULE Spec2Model ----------------------------
(***************************************************************************)
(* The four photutils benchmark scripts of the repository as one state     *)
(* machine:                                                                *)
(*   aperture_size     src/bench/aperture_size/aperture_size.py            *)
(*   num_apertures     src/bench/num_apertures/num_apertures.py            *)
(*   apertures         src/benchmarks/apertures.py                         *)
(*   circle_apertures  src/benchmarks/circle/circle_apertures.py           *)
(* A behaviour is one run of one script.  pc is the statement the run is   *)
(* at.  The environment is the process-wide numpy generator (its state on  *)
(* entry is whatever the process left there), the wall clock behind        *)
(* datetime.now(), the external aperture_photometry call (which returns or *)
(* raises) and the csv sink.  Durations are exact rationals [num, den] in  *)
(* clock units instead of floats; coordinates are in half pixels.          *)
(***************************************************************************)
EXTENDS Integers, Sequences, FiniteSets

\* ------------------------------------------------------------ bounds
\* Number of leading elements of each swept axis (radii, counts, Ns) a run sweeps.
MaxPoints == 2
\* Number of times per run the wall clock misbehaves (a slow call, a step back).
MaxClockEvents == 1

\* ------------------------------------------------------------ program constants
SEED == 11256
H == 512
W == 512
OFFSET == 10
REPS == 5
SUBPIXELS == 5

Variants == {"aperture_size", "num_apertures", "apertures", "circle_apertures"}

\* Seed material of the generator states the process may hold when a script starts.
AmbientKeys == {0, 1}

RECURSIVE Sum(_)
Sum(s) == IF s = <<>> THEN 0 ELSE Head(s) + Sum(Tail(s))

RECURSIVE ConcatAll(_)
ConcatAll(ss) == IF ss = <<>> THEN <<>> ELSE Head(ss) \o ConcatAll(Tail(ss))

Min(a, b) == IF a <= b THEN a ELSE b

Prefix(s) == SubSeq(s, 1, Min(MaxPoints, Len(s)))

\* ------------------------------------------------------------ sweep axes
\* trange(1, 201, 5)
RadiiAll == [k \in 1..((201 - 1 + 4) \div 5) |-> 1 + 5 * (k - 1)]
Radii == Prefix(RadiiAll)

CountsAll == <<1, 10, 50, 100, 200, 400, 500, 1000, 2000>>
Counts == Prefix(CountsAll)

NsAll == <<1, 10, 50, 100>>
Ns == Prefix(NsAll)

methods == <<"exact", "center", "subpixel">>

APS == <<"CircularAperture", "CircularAnnulus", "EllipticalAperture",
         "EllipticalAnnulus", "RectangularAperture", "RectangularAnnulus">>

params == << <<3>>, <<3, 5>>, <<3, 3, 0>>, <<3, 5, 4, 0>>, <<3, 5, 0>>, <<3, 5, 4, 0>> >>

\* A mutation of inputs: the method axis outermost.
inputsMethodOutermost ==
    ConcatAll([j \in 1..Len(methods) |->
        ConcatAll([i \in 1..Len(Ns) |->
            [k \in 1..Len(APS) |-> <<Ns[i], methods[j], <<APS[k], params[k]>> >>]])])

\* list(product(Ns, methods, zip(APS, params))): the rightmost axis runs fastest.
inputs ==
    ConcatAll([i \in 1..Len(Ns) |->
        ConcatAll([j \in 1..Len(methods) |->
            [k \in 1..Len(APS) |-> <<Ns[i], methods[j], <<APS[k], params[k]>> >>]])])

\* The sequence a script's for statement iterates.
Axis(v) ==
    CASE v = "aperture_size"    -> Radii
      [] v = "num_apertures"    -> Counts
      [] v = "apertures"        -> inputs
      [] v = "circle_apertures" -> Counts

Sweeps(v) == IF v \in {"aperture_size", "num_apertures"} THEN 2 ELSE 1

\* Repetitions per parameter point.
Reps(v) == IF v \in {"aperture_size", "num_apertures"} THEN REPS ELSE 1

Seeds(v) == v \in {"aperture_size", "num_apertures"}

Path(v, s) ==
    CASE v = "aperture_size"    -> IF s = 1 THEN "python_aperture_size.csv"
                                            ELSE "python_aperture_size-ellipse.csv"
      [] v = "num_apertures"    -> IF s = 1 THEN "python_num_apertures.csv"
                                            ELSE "python_num_apertures-ellipse.csv"
      [] v = "apertures"        -> "python_apertures.csv"
      [] v = "circle_apertures" -> "python_circle_apertures.csv"

Columns(v) ==
    CASE v = "aperture_size"    -> <<"r", "time">>
      [] v = "num_apertures"    -> <<"N", "time">>
      [] v = "apertures"        -> <<"N", "aperture", "method", "time">>
      [] v = "circle_apertures" -> <<"N", "time">>

\* ------------------------------------------------------------ generator
\* A generator state is <<key, pos>>: the seed material and the number of
\* variates drawn since.
SeedState(c) == <<c, 0>>
Advance(g, n) == <<g[1], g[2] + n>>

\* np.random.randn(h, w) + 10 drawn at generator state g.
Randn(g) == [gen |-> g, h |-> H, w |-> W, offset |-> OFFSET]
NoData == [gen |-> <<>>, h |-> 0, w |-> 0, offset |-> 0]

\* ------------------------------------------------------------ regions
NoAps == [shape |-> "", n |-> 0, at |-> <<>>, gen |-> <<>>, par |-> <<>>]

\* A(list(repeat((255, 255), N)), *par)
RepeatAps(A, N, par) == [shape |-> A, n |-> N, at |-> <<510, 510>>, gen |-> <<>>, par |-> par]

\* A((255.5, 255.5), *par)
SingleAps(A, par) == [shape |-> A, n |-> 1, at |-> <<511, 511>>, gen |-> <<>>, par |-> par]

\* A(pos, *par) with pos zipped from two rand(N) draws starting at state g.
RandomAps(A, N, g, par) == [shape |-> A, n |-> N, at |-> <<>>, gen |-> g, par |-> par]

\* ------------------------------------------------------------ combined sweep
\* A mutation of Skipped: the rectangle itself is let through.
SkippedAnnulusOnly(method, A) ==
    method = "exact" /\ A = "RectangularAnnulus"

\* if method == "exact" and (A == RectangularAnnulus or A == RectangularAperture): continue
Skipped(method, A) ==
    method = "exact" /\ (A = "RectangularAnnulus" \/ A = "RectangularAperture")

\* m = method if method != "subpixel" else "subpixel-5"
Label(method) == IF method # "subpixel" THEN method ELSE "subpixel-5"

\* A mutation of Kwargs: the subdivision factor is passed with every method.
KwargsAlways(method) == {<<"subpixels", SUBPIXELS>>}

\* kwargs = {} if method != "subpixel" else {"subpixels": 5}
Kwargs(method) == IF method # "subpixel" THEN {} ELSE {<<"subpixels", SUBPIXELS>>}

\* ------------------------------------------------------------ reduction
\* A mutation of Mean: the last sample is left out of the sum.
MeanDropsLast(s) == [num |-> Sum(SubSeq(s, 1, Len(s) - 1)), den |-> REPS]

\* sum(ts) / 5
Mean(s) == [num |-> Sum(s), den |-> REPS]

\* (t1 - t0).total_seconds() used as the row's time directly
Single(d) == [num |-> d, den |-> 1]


\* ------------------------------------------------------------ control flow
\* A mutation of Succ: the region is built after t0 is read.
SuccBuildTimed(p) ==
    CASE p = "for"   -> "t0"
      [] p = "t0"    -> "build"
      [] p = "build" -> "call"
      [] p = "call"  -> "t1"
      [] p = "t1"    -> "sample"

\* The statement after p inside the body of the sweep loop: region (and label,
\* kwargs) construction, t0 = now(), the call, t1 = now(), the sample.
Succ(p) ==
    CASE p = "for"   -> "build"
      [] p = "build" -> "t0"
      [] p = "t0"    -> "call"
      [] p = "call"  -> "t1"
      [] p = "t1"    -> "sample"

\* A mutation of OnRaise: the failure is swallowed and the sweep goes on.
OnRaiseContinue == "for"

\* Nothing catches what aperture_photometry raises: the script ends there.
OnRaise == "failed"

\* A mutation of SecondSweepRows: the first sweep's rows are kept.
SecondSweepRowsKept(r) == r

\* rows = [] before the second sweep of a two-sweep script.
SecondSweepRows(r) == <<>>

VARIABLES
    variant,      \* the script that runs
    pc,           \* the statement the run is at
    rngState,     \* the process-wide numpy generator
    data,         \* the synthetic field
    sweep,        \* 1, or 2 in the second sweep of a two-sweep script
    idx,          \* position of the for statement in its axis
    aps,          \* the region object(s) of the current point
    m,            \* the method label of the current point (combined sweep)
    kwargs,       \* the keyword arguments of the current point (combined sweep)
    t0, t1,       \* the two clock readings
    ts,           \* the samples of the current point
    rows,         \* the result rows so far
    writes,       \* the to_csv calls so far: what reached the sink
    ncalls,       \* the number of aperture_photometry calls so far
    lastCall,     \* the arguments of the latest aperture_photometry call
    clock,        \* the wall clock datetime.now() reads
    clockEvents,  \* how often the clock has misbehaved
    raised        \* aperture_photometry has raised

vars == <<variant, pc, rngState, data, sweep, idx, aps, m, kwargs, t0, t1, ts,
          rows, writes, ncalls, lastCall, clock, clockEvents, raised>>

Point == Axis(variant)[idx]

\* The region object(s) the loop body builds for axis element x.
BuildAps(v, s, x, g) ==
    CASE v = "aperture_size" ->
            IF s = 1 THEN SingleAps("CircularAperture", <<x>>)
                     ELSE SingleAps("EllipticalAperture", <<x, x, 20>>)
      [] v = "num_apertures" ->
            IF s = 1 THEN RandomAps("CircularAperture", x, g, <<10>>)
                     ELSE RandomAps("EllipticalAperture", x, g, <<10, 10, 20>>)
      [] v = "apertures" -> RepeatAps(x[3][1], x[1], x[3][2])
      [] v = "circle_apertures" -> RepeatAps("CircularAperture", x, <<3>>)

NoCall == [field |-> NoData, aps |-> NoAps, method |-> "", kwargs |-> {}]

\* The method identifier the call passes.
MethodArg(v, x) == IF v = "apertures" THEN x[2] ELSE "exact"

\* A mutation of CallArgs: a field drawn afresh is passed instead of data.
CallArgsFreshField == [field |-> Randn(Advance(rngState, 1)), aps |-> aps,
                       method |-> MethodArg(variant, Point), kwargs |-> kwargs]

\* aperture_photometry(data, aps, method=..., **kwargs)
CallArgs == [field |-> data, aps |-> aps, method |-> MethodArg(variant, Point),
             kwargs |-> kwargs]

\* The row appended for axis element x with time tm.
Row(v, x, label, tm) ==
    IF v = "apertures" THEN <<x[1], x[3][1], label, tm>> ELSE <<x, tm>>

Init ==
    /\ variant \in Variants
    /\ pc = IF Seeds(variant) THEN "seed" ELSE "data"
    /\ rngState \in {SeedState(k) : k \in AmbientKeys}
    /\ data = NoData
    /\ sweep = 1
    /\ idx = 0
    /\ aps = NoAps
    /\ m = ""
    /\ kwargs = {}
    /\ t0 = 0
    /\ t1 = 0
    /\ ts = <<>>
    /\ rows = <<>>
    /\ writes = <<>>
    /\ ncalls = 0
    /\ lastCall = NoCall
    /\ clock = 0
    /\ clockEvents = 0
    /\ raised = FALSE

\* rng = np.random.seed(11256)
Seed ==
    /\ pc = "seed"
    /\ rngState' = SeedState(SEED)
    /\ pc' = "data"
    /\ UNCHANGED <<variant, data, sweep, idx, aps, m, kwargs, t0, t1, ts, rows,
                   writes, ncalls, lastCall, clock, clockEvents, raised>>

\* data = np.random.randn(512, 512) + 10 ; rows = []
GenField ==
    /\ pc = "data"
    /\ data' = Randn(rngState)
    /\ rngState' = Advance(rngState, H * W)
    /\ rows' = <<>>
    /\ pc' = "for"
    /\ UNCHANGED <<variant, sweep, idx, aps, m, kwargs, t0, t1, ts, writes,
                   ncalls, lastCall, clock, clockEvents, raised>>

\* for x in axis: the next element
ForNext ==
    /\ pc = "for"
    /\ idx < Len(Axis(variant))
    /\ idx' = idx + 1
    /\ pc' = Succ("for")
    /\ UNCHANGED <<variant, rngState, data, sweep, aps, m, kwargs, t0, t1, ts,
                   rows, writes, ncalls, lastCall, clock, clockEvents, raised>>

\* for x in axis: exhausted
ForEnd ==
    /\ pc = "for"
    /\ idx >= Len(Axis(variant))
    /\ pc' = "csv"
    /\ UNCHANGED <<variant, rngState, data, sweep, idx, aps, m, kwargs, t0, t1,
                   ts, rows, writes, ncalls, lastCall, clock, clockEvents, raised>>

\* The combined sweep's continue.
Skip ==
    /\ pc = "build"
    /\ variant = "apertures"
    /\ Skipped(Point[2], Point[3][1])
    /\ pc' = "for"
    /\ UNCHANGED <<variant, rngState, data, sweep, idx, aps, m, kwargs, t0, t1,
                   ts, rows, writes, ncalls, lastCall, clock, clockEvents, raised>>

\* The statements of the loop body before the timing: the region object(s),
\* in the combined sweep m and kwargs, in the repeated sweeps ts = [].
Build ==
    /\ pc = "build"
    /\ variant = "apertures" => ~Skipped(Point[2], Point[3][1])
    /\ aps' = BuildAps(variant, sweep, Point, rngState)
    /\ rngState' = IF variant = "num_apertures"
                   THEN Advance(rngState, 2 * Point) ELSE rngState
    /\ m' = IF variant = "apertures" THEN Label(Point[2]) ELSE m
    /\ kwargs' = IF variant = "apertures" THEN Kwargs(Point[2]) ELSE kwargs
    /\ ts' = IF Reps(variant) = REPS THEN <<>> ELSE ts
    /\ pc' = Succ("build")
    /\ UNCHANGED <<variant, data, sweep, idx, t0, t1, rows, writes, ncalls, lastCall,
                   clock, clockEvents, raised>>

\* t0 = datetime.now()
ReadT0 ==
    /\ pc = "t0"
    /\ t0' = clock
    /\ pc' = Succ("t0")
    /\ UNCHANGED <<variant, rngState, data, sweep, idx, aps, m, kwargs, t1, ts,
                   rows, writes, ncalls, lastCall, clock, clockEvents, raised>>

\* t = aperture_photometry(...) returns; the call took one clock unit.
CallReturns ==
    /\ pc = "call"
    /\ ncalls' = ncalls + 1
    /\ lastCall' = CallArgs
    /\ clock' = clock + 1
    /\ pc' = Succ("call")
    /\ UNCHANGED <<variant, rngState, data, sweep, idx, aps, m, kwargs, t0, t1,
                   ts, rows, writes, clockEvents, raised>>

\* t = aperture_photometry(...) returns; the call took two clock units.
CallReturnsSlowly ==
    /\ pc = "call"
    /\ clockEvents < MaxClockEvents
    /\ clockEvents' = clockEvents + 1
    /\ ncalls' = ncalls + 1
    /\ lastCall' = CallArgs
    /\ clock' = clock + 2
    /\ pc' = Succ("call")
    /\ UNCHANGED <<variant, rngState, data, sweep, idx, aps, m, kwargs, t0, t1,
                   ts, rows, writes, raised>>

\* t = aperture_photometry(...) raises.
CallRaises ==
    /\ pc = "call"
    /\ ncalls' = ncalls + 1
    /\ lastCall' = CallArgs
    /\ raised' = TRUE
    /\ pc' = OnRaise
    /\ UNCHANGED <<variant, rngState, data, sweep, idx, aps, m, kwargs, t0, t1,
                   ts, rows, writes, clock, clockEvents>>

\* The system clock is stepped back (an NTP correction, a manual set) after
\* the call returned and before t1 is read.  datetime.now() is the system's
\* wall clock, so the reading follows the step.
ClockStepsBack ==
    /\ pc = "t1"
    /\ clockEvents < MaxClockEvents
    /\ clockEvents' = clockEvents + 1
    /\ clock' = clock - 2
    /\ UNCHANGED <<variant, pc, rngState, data, sweep, idx, aps, m, kwargs, t0,
                   t1, ts, rows, writes, ncalls, lastCall, raised>>

\* t1 = datetime.now()
ReadT1 ==
    /\ pc = "t1"
    /\ t1' = clock
    /\ pc' = Succ("t1")
    /\ UNCHANGED <<variant, rngState, data, sweep, idx, aps, m, kwargs, t0, ts,
                   rows, writes, ncalls, lastCall, clock, clockEvents, raised>>

\* Repeated sweeps: ts.append((t1 - t0).total_seconds()), then the next of
\* the 5 repetitions or the end of range(5).
SampleAppend ==
    /\ pc = "sample"
    /\ Reps(variant) = REPS
    /\ ts' = Append(ts, t1 - t0)
    /\ pc' = IF Len(ts') < REPS THEN "t0" ELSE "mean"
    /\ UNCHANGED <<variant, rngState, data, sweep, idx, aps, m, kwargs, t0, t1,
                   rows, writes, ncalls, lastCall, clock, clockEvents, raised>>

\* Repeated sweeps: time = sum(ts) / 5 ; rows.append((x, time))
MeanRow ==
    /\ pc = "mean"
    /\ rows' = Append(rows, Row(variant, Point, m, Mean(ts)))
    /\ pc' = "for"
    /\ UNCHANGED <<variant, rngState, data, sweep, idx, aps, m, kwargs, t0, t1,
                   ts, writes, ncalls, lastCall, clock, clockEvents, raised>>

\* Single-shot sweeps: time = (t1 - t0).total_seconds() ; rows.append(...)
SingleRow ==
    /\ pc = "sample"
    /\ Reps(variant) = 1
    /\ rows' = Append(rows, Row(variant, Point, m, Single(t1 - t0)))
    /\ pc' = "for"
    /\ UNCHANGED <<variant, rngState, data, sweep, idx, aps, m, kwargs, t0, t1,
                   ts, writes, ncalls, lastCall, clock, clockEvents, raised>>

\* df = pd.DataFrame(rows, columns=...) ; df.to_csv(...), and in a two-sweep
\* script after the first table: rows = [] and the second for statement.
ToCsv ==
    /\ pc = "csv"
    /\ writes' = Append(writes, [path |-> Path(variant, sweep),
                                 columns |-> Columns(variant), rows |-> rows])
    /\ IF sweep < Sweeps(variant)
       THEN /\ sweep' = sweep + 1
            /\ rows' = SecondSweepRows(rows)
            /\ idx' = 0
            /\ pc' = "for"
       ELSE /\ pc' = "done"
            /\ UNCHANGED <<sweep, rows, idx>>
    /\ UNCHANGED <<variant, rngState, data, aps, m, kwargs, t0, t1, ts, ncalls, lastCall,
                   clock, clockEvents, raised>>

Next ==
    \/ Seed
    \/ GenField
    \/ ForNext
    \/ ForEnd
    \/ Skip
    \/ Build
    \/ ReadT0
    \/ CallReturns
    \/ CallReturnsSlowly
    \/ CallRaises
    \/ ClockStepsBack
    \/ ReadT1
    \/ SampleAppend
    \/ MeanRow
    \/ SingleRow
    \/ ToCsv

Spec == Init /\ [][Next]_vars

\* ------------------------------------------------------------ properties

Last(s) == s[Len(s)]

\* The time of a row: its last column.
TimeOf(r) == r[Len(r)]

\* The cross product of the combined sweep as a set of <<N, method, shape>>.
Cross ==
    {<<Ns[i], methods[j], APS[k]>> :
        i \in 1..Len(Ns), j \in 1..Len(methods), k \in 1..Len(APS)}

ExactOnRectangle(p) ==
    p[2] = "exact" /\ p[3] \in {"RectangularAperture", "RectangularAnnulus"}

\* The points of the cross product that are not exact-on-rectangle.
RetainedPoints == {p \in Cross : ~ExactOnRectangle(p)}

\* <<N, method, shape>> of a row of the combined sweep, the label undone.
PointOfRow(r) == <<r[1], IF r[3] = "subpixel-5" THEN "subpixel" ELSE r[3], r[2]>>

\* <<N, method, shape>> of element x of the combined sweep's axis.
PointOf(x) == <<x[1], x[2], x[3][1]>>

\* The number of points the loop has finished with.
Finished == IF pc \in {"for", "csv", "done"} THEN idx ELSE idx - 1

\* The number of points among the first j of the combined sweep's axis that
\* are not exact-on-rectangle.
NotExcludedAmong ==
    [j \in 0..Len(inputs) |->
        Cardinality({i \in 1..j : ~ExactOnRectangle(PointOf(inputs[i]))})]

\* C1: in the combined sweep a point of the cross product Ns x methods x
\* shapes never gets a row or a timed call when its method is exact and its
\* shape is RectangularAperture or RectangularAnnulus; every other point has
\* exactly one row, hence one timed call, once the sweep is over (the rows'
\* points are then exactly the other points, each once).  While the
\* sweep runs, the rows are as many as the points finished that are not
\* exact-on-rectangle, the calls are as many as the rows (plus the call whose
\* row is pending), and the pending call is the current point's.
C1_SkipExactlyExactOnRectangle ==
    variant = "apertures" =>
        /\ \A k \in 1..Len(rows) : ~ExactOnRectangle(PointOfRow(rows[k]))
        /\ Len(rows) = NotExcludedAmong[IF Finished < 0 THEN 0 ELSE Finished]
        /\ ncalls = Len(rows) + (IF pc \in {"t1", "sample", "failed"} THEN 1 ELSE 0)
        /\ pc \in {"t1", "sample", "failed"} =>
              /\ ~ExactOnRectangle(PointOf(Point))
              /\ <<lastCall.aps.n, lastCall.method, lastCall.aps.shape>> = PointOf(Point)
        /\ pc \in {"csv", "done"} =>
              /\ {PointOfRow(rows[k]) : k \in 1..Len(rows)} = RetainedPoints
              /\ Len(rows) = Cardinality(RetainedPoints)

\* The combined sweep has finished: 16 retained points per region count.
C1_Witness ==
    /\ variant = "apertures"
    /\ pc = "done"
    /\ Len(rows) = 16 * Len(Ns)
    /\ ncalls = Len(rows)

\* C2: in every script, once the field exists it is the field drawn from the
\* generator seeded with the fixed constant, whatever state the generator
\* was in when the script started.
C2_FieldFromSeededGenerator ==
    data # NoData => data = Randn(SeedState(SEED))

\* C3: the duration of every timed call, t1 - t0, is non-negative.
C3_SamplesNonNegative ==
    /\ pc = "sample" => t1 - t0 >= 0
    /\ \A i \in 1..Len(ts) : ts[i] >= 0
    /\ \A k \in 1..Len(rows) : TimeOf(rows[k]).num >= 0

\* C4 as stated: once the external operation has raised, the run has ended
\* at that call and has persisted no result table at all.
C4_NoTableAfterFailure ==
    raised => (pc = "failed" /\ writes = <<>>)

\* C4 as amended: once the external operation has raised, the run has ended at
\* that call, nothing is timed, appended or written afterwards, and the
\* table of the sweep the failure occurred in is not persisted; what has been
\* persisted is exactly the tables of the sweeps completed before (the first
\* table, when a two-sweep script fails in its second sweep).
C4_FailureEndsRun ==
    /\ [](raised =>
            /\ pc = "failed"
            /\ Len(writes) = sweep - 1
            /\ \A k \in 1..Len(writes) : writes[k].path # Path(variant, sweep))
    /\ [][raised => (~ENABLED Next /\ UNCHANGED <<ncalls, rows, ts, writes, idx, pc>>)]_vars

\* A two-sweep script has failed in its second sweep, after the first table.
C4_Witness ==
    /\ raised
    /\ pc = "failed"
    /\ sweep = 2
    /\ Len(writes) = 1

\* The number of rows a finished sweep of the script has.
TableLen ==
    CASE variant = "aperture_size"    -> Len(Radii)
      [] variant = "num_apertures"    -> Len(Counts)
      [] variant = "apertures"        -> 16 * Len(Ns)
      [] variant = "circle_apertures" -> Len(Counts)

\* C5: a table is written only when its sweep is over: the k-th table exists
\* exactly from the end of the k-th sweep on, so no table is written twice,
\* none while its sweep runs, and a finished run has written each of its
\* tables once; a written table goes to its own path and holds exactly the
\* rows of its own sweep (one per retained point, no row of the other sweep),
\* and the last table written is the rows the sweep left.
C5_TableWrittenOnceAfterSweep ==
    /\ Len(writes) = IF pc = "done" THEN Sweeps(variant) ELSE sweep - 1
    /\ \A k \in 1..Len(writes) :
          /\ writes[k].path = Path(variant, k)
          /\ \A j \in 1..Len(writes) : writes[j].path = writes[k].path => j = k
          /\ Len(writes[k].rows) = TableLen
    /\ pc = "done" => writes[Len(writes)].rows = rows
    /\ pc = "csv" => (Len(rows) = TableLen /\ idx = Len(Axis(variant)))
    /\ Len(rows) <= TableLen

\* A two-sweep script has finished and has written both tables.
C5_Witness ==
    /\ pc = "done"
    /\ Sweeps(variant) = 2
    /\ Len(writes) = 2
    /\ writes[1].path # writes[2].path

NRank(n) == CHOOSE i \in 1..4 : <<1, 10, 50, 100>>[i] = n
MRank(l) == CHOOSE j \in 1..3 : <<"exact", "center", "subpixel-5">>[j] = l
ARank(a) ==
    CHOOSE k \in 1..6 :
        <<"CircularAperture", "CircularAnnulus", "EllipticalAperture",
          "EllipticalAnnulus", "RectangularAperture", "RectangularAnnulus">>[k] = a

\* The place of a row of the combined sweep in the nested order: region count
\* outermost, then method, then shape.
Rank(r) == 18 * (NRank(r[1]) - 1) + 6 * (MRank(r[3]) - 1) + ARank(r[2])

\* The k-th element of the axis a single-axis sweep declares.
Declared(k) ==
    IF variant = "aperture_size" THEN 1 + 5 * (k - 1)
    ELSE <<1, 10, 50, 100, 200, 400, 500, 1000, 2000>>[k]

\* The rows of tab are in the declared nested order of the sweep axes.
InSweepOrder(tab) ==
    IF variant = "apertures"
    THEN \A k \in 1..(Len(tab) - 1) : Rank(tab[k]) < Rank(tab[k + 1])
    ELSE \A k \in 1..Len(tab) : tab[k][1] = Declared(k)

\* C6: every written table, and the table a sweep has built when it ends, has
\* its rows in the declared nested order: in a single-axis sweep the k-th
\* row's swept column is the k-th element of the axis (1, 10, 50, ... or
\* 1, 6, 11, ...), in the combined sweep the rows ascend by region count,
\* then method, then shape, in declaration order; while a sweep runs each
\* new row comes after the rows before it in that order.
C6_RowsInSweepOrder ==
    /\ \A k \in 1..Len(writes) : InSweepOrder(writes[k].rows)
    /\ pc \in {"csv", "done"} => InSweepOrder(rows)
    /\ (Len(rows) >= 2 /\ variant = "apertures") =>
          Rank(rows[Len(rows) - 1]) < Rank(Last(rows))
    /\ (Len(rows) >= 1 /\ variant # "apertures") => Last(rows)[1] = Declared(Len(rows))

\* The combined sweep has finished with rows for more than one region count.
C6_Witness ==
    /\ variant = "apertures"
    /\ pc = "done"
    /\ Len(writes) = 1
    /\ Len(writes[1].rows) > 16
    /\ writes[1].rows[1][1] # Last(writes[1].rows)[1]

\* The region object(s) in aps are those of the current point.
ApsOfPoint ==
    /\ aps # NoAps
    /\ CASE variant = "aperture_size"    -> aps.n = 1 /\ aps.par[1] = Point
         [] variant = "num_apertures"    -> aps.n = Point
         [] variant = "apertures"        ->
                /\ aps.n = Point[1]
                /\ aps.shape = Point[3][1]
                /\ m = (IF Point[2] = "subpixel" THEN "subpixel-5" ELSE Point[2])
                /\ kwargs = (IF Point[2] = "subpixel" THEN {<<"subpixels", 5>>} ELSE {})
         [] variant = "circle_apertures" -> aps.n = Point

\* What the steps between the two readings leave alone.
Untimed == <<aps, m, kwargs, ts, rows, writes, data, rngState, idx, sweep, t0>>

\* C7: when t0 is read the region (and in the combined sweep the label and
\* the keyword arguments) of the current point is already built, and the next
\* statement is the call; the call is one call and changes nothing else of
\* the program; after it only t1 is read (the clock may move meanwhile, no
\* second call, no construction); regions are constructed and samples or rows
\* are appended only outside the two readings, the sample right after t1.
C7_OneCallBetweenReadings ==
    [][/\ pc = "t0" =>
            /\ ApsOfPoint
            /\ t0' = clock
            /\ pc' = "call"
            /\ ncalls' = ncalls
       /\ pc = "call" =>
            /\ ncalls' = ncalls + 1
            /\ lastCall'.aps = aps
            /\ pc' \in {"t1", "failed"}
            /\ UNCHANGED Untimed
       /\ pc = "t1" =>
            /\ ncalls' = ncalls
            /\ UNCHANGED Untimed
            /\ pc' = "t1" \/ (pc' = "sample" /\ t1' = clock)
       /\ (aps' # aps \/ m' # m \/ kwargs' # kwargs) => (pc = "build" /\ pc' = "t0")
       /\ ncalls' # ncalls => pc = "call"
       /\ (Len(ts') > Len(ts) \/ Len(rows') > Len(rows)) => pc \in {"sample", "mean"}
       /\ pc = "sample" =>
            \/ ts' = Append(ts, t1 - t0)
            \/ TimeOf(Last(rows')) = [num |-> t1 - t0, den |-> 1]
      ]_vars

\* t1 has just been read after the single call of a later repetition.
C7_Witness ==
    /\ pc = "sample"
    /\ Len(ts) = 2
    /\ ncalls = 3
    /\ lastCall.aps = aps

\* C8: in the size and count sweeps a row is appended only when all 5
\* repetitions of its point are recorded, and its time is the arithmetic mean
\* of those samples: time * (number of samples) = sum of the samples.  In the
\* single-shot sweeps the row's time is the one sample itself.  The reduction
\* maps <<1, 2, 3, 4, 5>> to 3.
C8_RowTimeIsMean ==
    /\ Mean(<<1, 2, 3, 4, 5>>).num = 3 * Mean(<<1, 2, 3, 4, 5>>).den
    /\ Reps(variant) = 5 =>
          /\ pc \in {"build", "t0", "call", "t1", "sample", "mean", "failed"}
                => (Len(rows) = idx - 1 /\ Len(ts) <= 5)
          /\ pc = "mean" => Len(ts) = 5
          /\ (pc = "for" /\ idx >= 1) =>
                /\ Len(rows) = idx
                /\ Len(ts) = 5
                /\ TimeOf(Last(rows)).den # 0
                /\ TimeOf(Last(rows)).num * Len(ts) = Sum(ts) * TimeOf(Last(rows)).den
    /\ (Reps(variant) = 1 /\ pc \in {"for", "build", "t0", "csv", "done"} /\ rows # <<>>) =>
                /\ TimeOf(Last(rows)).den # 0
                /\ TimeOf(Last(rows)).num = (t1 - t0) * TimeOf(Last(rows)).den

\* A row of a repeated sweep has just been appended from unequal samples.
C8_Witness ==
    /\ Reps(variant) = 5
    /\ pc = "for"
    /\ idx >= 1
    /\ Len(ts) = 5
    /\ \E i, j \in 1..5 : ts[i] # ts[j]
    /\ TimeOf(Last(rows)).num = Sum(ts)

\* C9: the field is assigned once, before the first parameter point, and
\* never again, and every call passes that field.
C9_FieldFixedForRun ==
    [][/\ data # NoData => data' = data
       /\ data' # data => (pc = "data" /\ idx = 0 /\ sweep = 1 /\ ncalls = 0)
       /\ ncalls' # ncalls => (data # NoData /\ lastCall'.field = data)
       /\ (ncalls > 0 /\ ncalls' # ncalls) => lastCall'.field = lastCall.field
      ]_vars

\* A call of the second sweep of a two-sweep script has received the field.
C9_Witness ==
    /\ sweep = 2
    /\ pc = "t1"
    /\ ncalls > REPS
    /\ lastCall.field = data
    /\ data # NoData

\* C10: in the combined sweep the call for a point passes the method name
\* unmodified, passes subpixels = 5 when the method is subpixel and no keyword
\* otherwise; the row's method column is "subpixel-5" for a subpixel point
\* and the method name otherwise.
C10_SubpixelsOnlyForSubpixel ==
    variant = "apertures" =>
        /\ pc \in {"t1", "sample", "failed"} =>
              /\ lastCall.method = Point[2]
              /\ lastCall.method \in {"exact", "center", "subpixel"}
        /\ ncalls > 0 =>
              /\ lastCall.method = "subpixel" <=> lastCall.kwargs # {}
              /\ lastCall.kwargs # {} => lastCall.kwargs = {<<"subpixels", 5>>}
        /\ (pc \in {"for", "build", "t0", "call", "csv", "done"} /\ rows # <<>>) =>
              /\ Last(rows)[3] = "subpixel-5" <=> lastCall.method = "subpixel"
              /\ lastCall.method # "subpixel" => Last(rows)[3] = lastCall.method

\* A subpixel point of the combined sweep has been called and its row appended.
C10_Witness ==
    /\ variant = "apertures"
    /\ pc = "for"
    /\ rows # <<>>
    /\ lastCall.method = "subpixel"
    /\ lastCall.kwargs = {<<"subpixels", 5>>}
    /\ Last(rows)[3] = "subpixel-5"

=============================================================================
